---- MODULE Spec2Model ----
\* Key-tracker backend: the assignment ledger (key_assignments) served by
\* routes/keys.js on top of the SQLite store opened in index.js, with the
\* user and login handlers that feed it.  One action per handler step; the
\* steps of a handler are cut at its awaits, each SQL statement being atomic.
EXTENDS Integers, Naturals, Sequences, FiniteSets, Bags, TLC

\* ---------------------------------------------------------------- bounds
MaxReq == 3          \* ledger requests (assign / return / history) per run
MaxTime == 2         \* CURRENT_TIMESTAMP values 1..MaxTime
MaxCall == 2         \* key registry requests (create / list) per run

\* ----------------------------------------------------------------- inputs
Emails == {"a@x.io"}
Identifiers == {"K-100"}
Passwords == {"password123", "wrong"}
\* The ids a request may name: every id a row of the table gets from the
\* requests of a run, and one more.
KeyIds == 1..(Cardinality(Identifiers) + 1)
UserIds == 1..(Cardinality(Emails) + 1)
\* database.sqlite outlives the process (CREATE TABLE IF NOT EXISTS): the keys
\* table the server finds is empty, or holds a key retired in the file
\* (isActive = 0; no handler clears the flag).
RetiredIdentifier == "K-001"
StoredKeys ==
  {{}, {[id |-> 1, identifier |-> RetiredIdentifier, isActive |-> FALSE]}}
\* The identifiers a create-key request may carry.
CallIdentifiers == Identifiers \cup {RetiredIdentifier}
\* Bearer tokens a request may present, by the id in their payload; 0: none.
Tokens == {0} \cup UserIds

\* ------------------------------------------------------- program constants
NULL == 0                         \* SQL NULL in returnedAt
NoToken == 0                      \* request without a valid bearer token
tempPassword == "password123"

VARIABLES db, users, keys, key_assignments, sqlite_sequence, now, tokens, reqs,
          calls

vars == <<db, users, keys, key_assignments, sqlite_sequence, now, tokens, reqs, calls>>

\* ----------------------------------------------------------------- helpers
\* bcrypt.hash / bcrypt.compare: the hash is not the password, and compare
\* accepts exactly the password the hash was made from.
Hash(p) == <<"$2a$10$", p>>
Compare(p, h) == h = Hash(p)

\* AUTOINCREMENT: the next rowid is one more than the table's sequence.
NextId(table) == sqlite_sequence[table] + 1

\* A request record: what the handler holds between its awaits and what it
\* answered.  error is the "error" member of the JSON body, lastID the id of a
\* 201, result the rows of a history answer.  n is the request's place in its
\* client's sequence of requests (0 for a client that does not wait for answers).
\* reqs is the bag of the requests received so far.
Req(n, op, keyId, assignedTo, user, pc, status, error) ==
  [n |-> n, op |-> op, keyId |-> keyId, assignedTo |-> assignedTo, user |-> user,
   pc |-> pc, status |-> status, error |-> error, lastID |-> 0,
   result |-> <<>>]

Done(r, status, error) == [r EXCEPT !.pc = "done", !.status = status, !.error = error]

\* The requests of the clients ns that may wait on statement pc of handler
\* op; only assign carries a holder.
Waiting(ns, op, pc) ==
  {Req(n, op, k, u, t, pc, 0, "") :
     n \in ns, k \in KeyIds, u \in IF op = "assign" THEN UserIds ELSE {0},
     t \in UserIds}

\* A client that waits for each answer before its next request sends its n-th
\* request when all earlier requests are answered; n = 0 marks the requests of
\* clients that do not wait.
Turn(n) ==
  n > 0 => /\ n = BagCardinality(reqs) + 1
           /\ \A r \in BagToSet(reqs) : r.pc = "done"

\* Request r goes on as r2.
Continue(r, r2) == reqs' = (reqs (-) SetToBag({r})) (+) SetToBag({r2})

\* ------------------------------------------------------------------- Init
Init ==
  /\ db = "undefined"
  /\ users = {}
  /\ keys = {}
  /\ key_assignments = {}
  /\ sqlite_sequence = [t \in {"users", "keys", "key_assignments"} |-> 0]
  /\ now = 1
  /\ tokens = {}
  /\ reqs = EmptyBag
  /\ calls = EmptyBag

\* ------------------------------------------------- database initialization
\* db = await open(...): the handle becomes visible to the req.db middleware.
OpenDb ==
  /\ db = "undefined"
  /\ db' = "open"
  /\ UNCHANGED <<users, keys, key_assignments, sqlite_sequence, now, tokens, reqs, calls>>

\* await db.exec(CREATE TABLE IF NOT EXISTS ...): one sqlite3_exec call.
CreateTables ==
  /\ db = "open"
  /\ db' = "ready"
  /\ UNCHANGED <<users, keys, key_assignments, sqlite_sequence, now, tokens, reqs, calls>>

\* The wall clock behind CURRENT_TIMESTAMP (one-second resolution).
Tick ==
  /\ now < MaxTime
  /\ now' = now + 1
  /\ UNCHANGED <<db, users, keys, key_assignments, sqlite_sequence, tokens, reqs, calls>>

\* ---------------------------------------------------- middleware/auth.js
\* authenticateToken: a request passes only with a token that jwt.sign has
\* issued (a missing or forged token is rejected); req.user is its payload.
authenticateToken(tok) == tok # NoToken /\ tok \in tokens

\* ------------------------------------------------------- routes/users.js
\* POST /api/users (mounted without authenticateToken): one INSERT; a
\* storage error or a UNIQUE(email) failure answers 500 / 400 and adds nothing.
CreateUser(email) ==
  /\ IF db = "ready" /\ ~ \E u \in users : u.email = email
       THEN /\ users' = users \cup
                 {[id |-> NextId("users"), email |-> email,
                   password |-> Hash(tempPassword), isActive |-> TRUE]}
            /\ sqlite_sequence' = [sqlite_sequence EXCEPT !["users"] = NextId("users")]
       ELSE UNCHANGED <<users, sqlite_sequence>>
  /\ UNCHANGED <<db, keys, key_assignments, now, tokens, reqs, calls>>

\* -------------------------------------------------------- routes/auth.js
\* POST /api/auth/login: one SELECT ... WHERE email = ? AND isActive = 1, then
\* bcrypt.compare, then jwt.sign({id, email}); 401 / 500 issue no token.
Login(email, password) ==
  /\ IF db = "ready" /\ \E u \in users :
            u.email = email /\ u.isActive /\ Compare(password, u.password)
       THEN tokens' = tokens \cup
              {u.id : u \in {v \in users : v.email = email /\ v.isActive}}
       ELSE UNCHANGED tokens
  /\ UNCHANGED <<db, users, keys, key_assignments, sqlite_sequence, now, reqs, calls>>

\* -------------------------------------------------------- routes/keys.js
\* POST /api/keys: one INSERT INTO keys (identifier); isActive defaults to 1.
\* Unauthenticated, storage error and UNIQUE(identifier) failure add nothing.
CreateKey(tok, identifier) ==
  /\ IF authenticateToken(tok) /\ db = "ready"
          /\ ~ \E k \in keys : k.identifier = identifier
       THEN /\ keys' = keys \cup
                 {[id |-> NextId("keys"), identifier |-> identifier, isActive |-> TRUE]}
            /\ sqlite_sequence' = [sqlite_sequence EXCEPT !["keys"] = NextId("keys")]
       ELSE UNCHANGED <<keys, sqlite_sequence>>
  /\ UNCHANGED <<db, users, key_assignments, now, tokens, reqs, calls>>

\* The record of a create-key or list-keys request: what the handler holds at
\* its await and what it answered (lastID the id of a 201, result the rows of
\* a list answer).  calls is the bag of these requests received so far.
Call(op, identifier, user, pc, status, error) ==
  [op |-> op, identifier |-> identifier, user |-> user, pc |-> pc,
   status |-> status, error |-> error, lastID |-> 0, result |-> {}]

\* The create-key and list-keys requests that may wait on statement pc.
WaitingCalls(op, pc) ==
  {Call(op, idf, t, pc, 0, "") :
     idf \in IF op = "createKey" THEN CallIdentifiers ELSE {""}, t \in UserIds}

\* Call c goes on as c2.
ContinueCall(c, c2) == calls' = (calls (-) SetToBag({c})) (+) SetToBag({c2})

\* What runs before the handler body of POST /api/keys and GET /api/keys, as
\* in Arrive: authenticateToken, the notEmpty() validation of identifier, the
\* req.db middleware.
ArriveCall(op, tok, valid, identifier, pc) ==
  IF ~authenticateToken(tok)
    THEN Call(op, "", NoToken, "done", 401, "Unauthenticated")
  ELSE IF ~valid
    THEN Call(op, "", tok, "done", 400, "errors")
  ELSE IF db = "undefined"
    THEN Call(op, identifier, tok, "done", 500, "Error")
  ELSE Call(op, identifier, tok, pc, 0, "")

\* POST /api/keys up to its await.
BeginCreateKey(tok, valid, identifier) ==
  /\ BagCardinality(calls) < MaxCall
  /\ calls' = calls (+) SetToBag({ArriveCall("createKey", tok, valid, identifier, "insert")})
  /\ UNCHANGED <<db, users, keys, key_assignments, sqlite_sequence, now, tokens, reqs>>

\* Mutant: the identifier column carries no UNIQUE constraint.
CreateKeyInsert_NoUnique(c) ==
  /\ BagIn(c, calls)
  /\ IF db # "ready"
       THEN /\ ContinueCall(c, [c EXCEPT !.pc = "done", !.status = 500,
                                         !.error = "Error creating key"])
            /\ UNCHANGED <<keys, sqlite_sequence>>
       ELSE /\ keys' = keys \cup
                 {[id |-> NextId("keys"), identifier |-> c.identifier, isActive |-> TRUE]}
            /\ sqlite_sequence' = [sqlite_sequence EXCEPT !["keys"] = NextId("keys")]
            /\ ContinueCall(c, [c EXCEPT !.pc = "done", !.status = 201,
                                         !.lastID = NextId("keys")])
  /\ UNCHANGED <<db, users, key_assignments, now, tokens, reqs>>

\* POST /api/keys: the INSERT INTO keys (identifier) runs, then the handler
\* answers 201 with result.lastID, or 400 on "UNIQUE constraint failed", or
\* 500 on any other error.
CreateKeyInsert(c) ==
  /\ BagIn(c, calls)
  /\ IF db # "ready"
       THEN /\ ContinueCall(c, [c EXCEPT !.pc = "done", !.status = 500,
                                         !.error = "Error creating key"])
            /\ UNCHANGED <<keys, sqlite_sequence>>
       ELSE IF \E k \in keys : k.identifier = c.identifier
       THEN /\ ContinueCall(c, [c EXCEPT !.pc = "done", !.status = 400,
                                         !.error = "Key identifier already exists"])
            /\ UNCHANGED <<keys, sqlite_sequence>>
       ELSE /\ keys' = keys \cup
                 {[id |-> NextId("keys"), identifier |-> c.identifier, isActive |-> TRUE]}
            /\ sqlite_sequence' = [sqlite_sequence EXCEPT !["keys"] = NextId("keys")]
            /\ ContinueCall(c, [c EXCEPT !.pc = "done", !.status = 201,
                                         !.lastID = NextId("keys")])
  /\ UNCHANGED <<db, users, key_assignments, now, tokens, reqs>>

\* Mutant: the list query has no WHERE clause.
ActiveKeys_All == keys

\* SELECT * FROM keys WHERE isActive = 1
ActiveKeys == {k \in keys : k.isActive}

\* GET /api/keys up to its await.
BeginListKeys(tok) ==
  /\ BagCardinality(calls) < MaxCall
  /\ calls' = calls (+) SetToBag({ArriveCall("listKeys", tok, TRUE, "", "query")})
  /\ UNCHANGED <<db, users, keys, key_assignments, sqlite_sequence, now, tokens, reqs>>

\* GET /api/keys: the SELECT runs, then the handler answers with the rows.
ListKeysQuery(c) ==
  /\ BagIn(c, calls)
  /\ IF db # "ready"
       THEN ContinueCall(c, [c EXCEPT !.pc = "done", !.status = 500,
                                     !.error = "Error fetching keys"])
       ELSE ContinueCall(c, [c EXCEPT !.pc = "done", !.status = 200,
                                     !.result = ActiveKeys])
  /\ UNCHANGED <<db, users, keys, key_assignments, sqlite_sequence, now, tokens, reqs>>

\* Mutant: the check tests the wrong side of returnedAt.
CurrentAssignment_Returned(keyId) ==
  {a \in key_assignments : a.keyId = keyId /\ a.returnedAt # NULL}

\* SELECT * FROM key_assignments WHERE keyId = ? AND returnedAt IS NULL
CurrentAssignment(keyId) ==
  {a \in key_assignments : a.keyId = keyId /\ a.returnedAt = NULL}

\* Mutant: assignment ids are numbered per key.
InsertAssignment_PerKey(keyId, assignedTo, assignedBy) ==
  key_assignments \cup
    {[id |-> Cardinality({a \in key_assignments : a.keyId = keyId}) + 1,
      keyId |-> keyId, assignedTo |-> assignedTo, assignedBy |-> assignedBy,
      assignedAt |-> now, returnedAt |-> NULL]}

\* Mutant: a key that was held before gets its old row back, reopened, in
\* place of a new row.
InsertAssignment_Reopen(keyId, assignedTo, assignedBy) ==
  IF \E a \in key_assignments : a.keyId = keyId /\ a.returnedAt # NULL
    THEN {IF a.keyId = keyId /\ a.returnedAt # NULL
            THEN [a EXCEPT !.assignedTo = assignedTo, !.assignedBy = assignedBy,
                           !.assignedAt = now, !.returnedAt = NULL]
            ELSE a : a \in key_assignments}
    ELSE key_assignments \cup
           {[id |-> NextId("key_assignments"), keyId |-> keyId,
             assignedTo |-> assignedTo, assignedBy |-> assignedBy,
             assignedAt |-> now, returnedAt |-> NULL]}

\* INSERT INTO key_assignments (keyId, assignedTo, assignedBy) VALUES (?,?,?)
\* The FOREIGN KEY clauses are declared but no PRAGMA foreign_keys = ON is
\* ever issued, so SQLite does not enforce them.
InsertAssignment(keyId, assignedTo, assignedBy) ==
  key_assignments \cup
    {[id |-> NextId("key_assignments"), keyId |-> keyId,
      assignedTo |-> assignedTo, assignedBy |-> assignedBy,
      assignedAt |-> now, returnedAt |-> NULL]}

\* Mutant: the UPDATE lacks "AND returnedAt IS NULL".
UpdateReturned_AllRows(keyId) ==
  {IF a.keyId = keyId THEN [a EXCEPT !.returnedAt = now] ELSE a : a \in key_assignments}

\* Mutant: the UPDATE matches the path parameter against the assignment id.
UpdateReturned_ById(keyId) ==
  {IF a.id = keyId /\ a.returnedAt = NULL
     THEN [a EXCEPT !.returnedAt = now] ELSE a : a \in key_assignments}

\* UPDATE key_assignments SET returnedAt = CURRENT_TIMESTAMP
\*   WHERE keyId = ? AND returnedAt IS NULL
UpdateReturned(keyId) ==
  {IF a.keyId = keyId /\ a.returnedAt = NULL
     THEN [a EXCEPT !.returnedAt = now] ELSE a : a \in key_assignments}

\* SELECT ka.*, u1.email, u2.email FROM key_assignments ka
\*   JOIN users u1 ON ka.assignedTo = u1.id JOIN users u2 ON ka.assignedBy = u2.id
\*   WHERE ka.keyId = ?
HistoryRows(keyId) ==
  {[id |-> a.id, keyId |-> a.keyId, assignedTo |-> a.assignedTo,
    assignedBy |-> a.assignedBy, assignedAt |-> a.assignedAt,
    returnedAt |-> a.returnedAt,
    assignedToEmail |-> u1.email, assignedByEmail |-> u2.email] :
     <<a, u1, u2>> \in
       {t \in key_assignments \X users \X users :
          t[1].keyId = keyId /\ t[1].assignedTo = t[2].id /\ t[1].assignedBy = t[3].id}}

\* ORDER BY ka.assignedAt DESC: every sequence of the rows that is descending
\* in assignedAt; rows with equal assignedAt come in an order SQL leaves open.
OrderByAssignedAtDesc(rows) ==
  {s \in [1..Cardinality(rows) -> rows] :
     /\ \A i, j \in 1..Cardinality(rows) : i # j => s[i] # s[j]
     /\ \A i, j \in 1..Cardinality(rows) : i < j => s[i].assignedAt >= s[j].assignedAt}

\* Mutant: the keys router is mounted without authenticateToken.
Arrive_NoAuth(n, op, tok, valid, keyId, assignedTo, pc) ==
  IF ~valid
    THEN Req(n, op, 0, 0, tok, "done", 400, "errors")
  ELSE IF db = "undefined"
    THEN Req(n, op, keyId, assignedTo, tok, "done", 500, "Error")
  ELSE Req(n, op, keyId, assignedTo, tok, pc, 0, "")

\* The part every /api/keys request runs before its handler body: the req.db
\* middleware, authenticateToken, the express-validator check.  The request
\* is answered at once, or left waiting on its first statement (pc).  The
\* record holds keyId and assignedTo from the point where the handler reads
\* them (const { keyId, assignedTo } = req.body; req.params.keyId).
Arrive(n, op, tok, valid, keyId, assignedTo, pc) ==
  IF ~authenticateToken(tok)
    THEN Req(n, op, 0, 0, NoToken, "done", 401, "Unauthenticated")
  ELSE IF ~valid
    THEN Req(n, op, 0, 0, tok, "done", 400, "errors")
  ELSE IF db = "undefined"
    THEN Req(n, op, keyId, assignedTo, tok, "done", 500, "Error")
  ELSE Req(n, op, keyId, assignedTo, tok, pc, 0, "")

\* POST /api/keys/assign up to its first await.
BeginAssign(n, tok, valid, keyId, assignedTo) ==
  /\ BagCardinality(reqs) < MaxReq
  /\ Turn(n)
  /\ reqs' = reqs (+) SetToBag({Arrive(n, "assign", tok, valid, keyId, assignedTo, "select")})
  /\ UNCHANGED <<db, users, keys, key_assignments, sqlite_sequence, now, tokens, calls>>

\* Mutant: the row is written before the check, and a refused request leaves
\* it behind.
AssignSelect_InsertFirst(r) ==
  /\ BagIn(r, reqs)
  /\ IF db # "ready"
       THEN /\ Continue(r, Done(r, 500, "Error assigning key"))
            /\ UNCHANGED <<key_assignments, sqlite_sequence>>
       ELSE /\ key_assignments' = InsertAssignment(r.keyId, r.assignedTo, r.user)
            /\ sqlite_sequence' =
                 [sqlite_sequence EXCEPT !["key_assignments"] = NextId("key_assignments")]
            /\ Continue(r,
                 IF CurrentAssignment(r.keyId) # {}
                   THEN Done(r, 400, "Key is already assigned")
                   ELSE [Done(r, 201, "") EXCEPT !.lastID = NextId("key_assignments")])
  /\ UNCHANGED <<db, users, keys, now, tokens, calls>>

\* POST /api/keys/assign: the SELECT runs, then the handler either answers
\* 400 or issues the INSERT.
AssignSelect(r) ==
  /\ BagIn(r, reqs)
  /\ Continue(r,
       IF db # "ready" THEN Done(r, 500, "Error assigning key")
       ELSE IF CurrentAssignment(r.keyId) # {}
         THEN Done(r, 400, "Key is already assigned")
       ELSE [r EXCEPT !.pc = "insert"])
  /\ UNCHANGED <<db, users, keys, key_assignments, sqlite_sequence, now, tokens, calls>>

\* Mutant: holder and actor are bound to the INSERT in the wrong order.
AssignInsert_Swapped(r) ==
  /\ BagIn(r, reqs)
  /\ IF db # "ready"
       THEN /\ Continue(r, Done(r, 500, "Error assigning key"))
            /\ UNCHANGED <<key_assignments, sqlite_sequence>>
       ELSE /\ key_assignments' = InsertAssignment(r.keyId, r.user, r.assignedTo)
            /\ sqlite_sequence' =
                 [sqlite_sequence EXCEPT !["key_assignments"] = NextId("key_assignments")]
            /\ Continue(r, [Done(r, 201, "") EXCEPT !.lastID = NextId("key_assignments")])
  /\ UNCHANGED <<db, users, keys, now, tokens, calls>>

\* POST /api/keys/assign: the INSERT runs, then the handler answers 201 with
\* result.lastID.
AssignInsert(r) ==
  /\ BagIn(r, reqs)
  /\ IF db # "ready"
       THEN /\ Continue(r, Done(r, 500, "Error assigning key"))
            /\ UNCHANGED <<key_assignments, sqlite_sequence>>
       ELSE /\ key_assignments' = InsertAssignment(r.keyId, r.assignedTo, r.user)
            /\ sqlite_sequence' =
                 [sqlite_sequence EXCEPT !["key_assignments"] = NextId("key_assignments")]
            /\ Continue(r, [Done(r, 201, "") EXCEPT !.lastID = NextId("key_assignments")])
  /\ UNCHANGED <<db, users, keys, now, tokens, calls>>

\* POST /api/keys/return/:keyId up to its await.
BeginReturn(n, tok, keyId) ==
  /\ BagCardinality(reqs) < MaxReq
  /\ Turn(n)
  /\ reqs' = reqs (+) SetToBag({Arrive(n, "return", tok, TRUE, keyId, 0, "update")})
  /\ UNCHANGED <<db, users, keys, key_assignments, sqlite_sequence, now, tokens, calls>>

\* Mutant: the UPDATE of a return waits until the key has a holder.
ReturnUpdate_Blocking(r) ==
  /\ BagIn(r, reqs)
  /\ db = "ready" => CurrentAssignment(r.keyId) # {}
  /\ IF db # "ready"
       THEN /\ Continue(r, Done(r, 500, "Error returning key"))
            /\ UNCHANGED key_assignments
       ELSE /\ key_assignments' = UpdateReturned(r.keyId)
            /\ Continue(r, Done(r, 200, ""))
  /\ UNCHANGED <<db, users, keys, sqlite_sequence, now, tokens, calls>>

\* Mutant: a return also retires the key in the keys table.
ReturnUpdate_Retire(r) ==
  /\ BagIn(r, reqs)
  /\ IF db # "ready"
       THEN /\ Continue(r, Done(r, 500, "Error returning key"))
            /\ UNCHANGED <<key_assignments, keys>>
       ELSE /\ key_assignments' = UpdateReturned(r.keyId)
            /\ keys' = {IF k.id = r.keyId THEN [k EXCEPT !.isActive = FALSE] ELSE k :
                          k \in keys}
            /\ Continue(r, Done(r, 200, ""))
  /\ UNCHANGED <<db, users, sqlite_sequence, now, tokens, calls>>

\* POST /api/keys/return/:keyId: the UPDATE runs, then the handler answers.
ReturnUpdate(r) ==
  /\ BagIn(r, reqs)
  /\ IF db # "ready"
       THEN /\ Continue(r, Done(r, 500, "Error returning key"))
            /\ UNCHANGED key_assignments
       ELSE /\ key_assignments' = UpdateReturned(r.keyId)
            /\ Continue(r, Done(r, 200, ""))
  /\ UNCHANGED <<db, users, keys, sqlite_sequence, now, tokens, calls>>

\* GET /api/keys/history/:keyId up to its await.
BeginHistory(n, tok, keyId) ==
  /\ BagCardinality(reqs) < MaxReq
  /\ Turn(n)
  /\ reqs' = reqs (+) SetToBag({Arrive(n, "history", tok, TRUE, keyId, 0, "query")})
  /\ UNCHANGED <<db, users, keys, key_assignments, sqlite_sequence, now, tokens, calls>>

\* GET /api/keys/history/:keyId: the SELECT runs, then the handler answers
\* with the rows.
HistoryQuery(r) ==
  /\ BagIn(r, reqs)
  /\ IF db # "ready"
       THEN Continue(r, Done(r, 500, "Error fetching key history"))
       ELSE \E s \in OrderByAssignedAtDesc(HistoryRows(r.keyId)) :
              Continue(r, [Done(r, 200, "") EXCEPT !.result = s])
  /\ UNCHANGED <<db, users, keys, key_assignments, sqlite_sequence, now, tokens, calls>>

\* ------------------------------------- routes/users.js and routes/auth.js
\* The handlers of /api/users and /api/auth step by step, with their answers.
\* Both routers are mounted without authenticateToken.
NewEmails == {"b@x.io"}           \* emails a PUT may set
AllEmails == Emails \cup NewEmails
\* req.body.isActive: << >> when the member is absent (undefined).
IsActiveInputs == {<< >>, <<TRUE>>, <<FALSE>>}

\* The record of a login, update or deactivate request: what the handler holds
\* at its awaits (userId and hash are the row the login SELECT returned) and
\* what it answered.  An absent email is "".
UserCall(op, id, email, password, isActive, pc, status, error) ==
  [op |-> op, id |-> id, email |-> email, password |-> password,
   isActive |-> isActive, pc |-> pc, status |-> status, error |-> error,
   userId |-> 0, hash |-> << >>]

\* The requests that may wait on statement pc of handler op.
WaitingUserCalls(op, pc) ==
  CASE op = "login" /\ pc = "select" ->
         {UserCall(op, 0, e, p, << >>, pc, 0, "") : e \in AllEmails, p \in Passwords}
    [] op = "login" /\ pc = "compare" ->
         {[UserCall(op, 0, e, p, << >>, pc, 0, "")
             EXCEPT !.userId = u, !.hash = Hash(tempPassword)] :
            e \in AllEmails, p \in Passwords, u \in UserIds}
    [] op = "update" ->
         {UserCall(op, u, e, "", a, pc, 0, "") :
            u \in UserIds, e \in NewEmails \cup {""}, a \in IsActiveInputs}
    [] op = "delete" ->
         {UserCall(op, u, "", "", << >>, pc, 0, "") : u \in UserIds}

\* Mutant: the first use of req.db lies outside the try, the TypeError escapes
\* and the request is never answered.
ArriveUser_Unhandled(op, valid, id, email, password, isActive, pc, error) ==
  IF ~valid
    THEN UserCall(op, 0, "", "", << >>, "done", 400, "errors")
  ELSE IF op = "update" /\ email = "" /\ isActive = << >>
    THEN UserCall(op, id, "", "", << >>, "done", 400, "No valid updates provided")
  ELSE IF db = "undefined"
    THEN UserCall(op, id, email, password, isActive, "unhandled", 0, "")
  ELSE UserCall(op, id, email, password, isActive, pc, 0, "")

\* What a users / auth handler does before its first statement: the
\* express-validator check, for PUT the test of updates.length, and the first
\* use of req.db, which throws inside the try when db is still undefined.
ArriveUser(op, valid, id, email, password, isActive, pc, error) ==
  IF ~valid
    THEN UserCall(op, 0, "", "", << >>, "done", 400, "errors")
  ELSE IF op = "update" /\ email = "" /\ isActive = << >>
    THEN UserCall(op, id, "", "", << >>, "done", 400, "No valid updates provided")
  ELSE IF db = "undefined"
    THEN UserCall(op, id, email, password, isActive, "done", 500, error)
  ELSE UserCall(op, id, email, password, isActive, pc, 0, "")

AnswerCall(c, status, error) ==
  ContinueCall(c, [c EXCEPT !.pc = "done", !.status = status, !.error = error])

\* POST /api/auth/login up to its first await.
BeginLogin(valid, email, password) ==
  /\ BagCardinality(calls) < MaxCall
  /\ calls' = calls (+) SetToBag({ArriveUser("login", valid, 0, email, password, << >>,
                                             "select", "Error during login")})
  /\ UNCHANGED <<db, users, keys, key_assignments, sqlite_sequence, now, tokens, reqs>>

\* Mutant: the login lookup has no isActive condition.
ActiveUser_Any(email) == {u \in users : u.email = email}

\* SELECT * FROM users WHERE email = ? AND isActive = 1
ActiveUser(email) == {u \in users : u.email = email /\ u.isActive}

\* POST /api/auth/login: the SELECT runs; without a row the handler answers
\* 401, with a row it goes on to await bcrypt.compare.
LoginSelect(c) ==
  /\ BagIn(c, calls)
  /\ IF db # "ready"
       THEN AnswerCall(c, 500, "Error during login")
       ELSE IF ActiveUser(c.email) = {}
       THEN AnswerCall(c, 401, "Invalid credentials")
       ELSE \E u \in ActiveUser(c.email) :
              ContinueCall(c, [c EXCEPT !.pc = "compare", !.userId = u.id,
                                        !.hash = u.password])
  /\ UNCHANGED <<db, users, keys, key_assignments, sqlite_sequence, now, tokens, reqs>>

\* POST /api/auth/login: bcrypt.compare resolves; on a match jwt.sign issues
\* the token for the row the SELECT returned.
LoginCompare(c) ==
  /\ BagIn(c, calls)
  /\ IF Compare(c.password, c.hash)
       THEN /\ tokens' = tokens \cup {c.userId}
            /\ AnswerCall(c, 200, "")
       ELSE /\ AnswerCall(c, 401, "Invalid credentials")
            /\ UNCHANGED tokens
  /\ UNCHANGED <<db, users, keys, key_assignments, sqlite_sequence, now, reqs>>

\* PUT /api/users/:id up to its await.
BeginUpdate(valid, id, email, isActive) ==
  /\ BagCardinality(calls) < MaxCall
  /\ calls' = calls (+) SetToBag({ArriveUser("update", valid, id, email, "", isActive,
                                             "update", "Error updating user")})
  /\ UNCHANGED <<db, users, keys, key_assignments, sqlite_sequence, now, tokens, reqs>>

\* Mutant: isActive is tested for truth, so false is dropped.
SetClause_Truthy(u, email, isActive) ==
  [u EXCEPT !.email = IF email # "" THEN email ELSE @,
            !.isActive = IF isActive = <<TRUE>> THEN TRUE ELSE @]

\* SET email = ?, isActive = ?: the clauses pushed for the supplied members.
SetClause(u, email, isActive) ==
  [u EXCEPT !.email = IF email # "" THEN email ELSE @,
            !.isActive = IF isActive # << >> THEN isActive[1] ELSE @]

\* PUT /api/users/:id: the UPDATE ... WHERE id = ? runs; an email held by
\* another row fails the statement (UNIQUE) and the handler answers 500.
UpdateUser(c) ==
  /\ BagIn(c, calls)
  /\ IF db # "ready"
          \/ /\ c.email # ""
             /\ \E u \in users : u.id = c.id
             /\ \E u \in users : u.id # c.id /\ u.email = c.email
       THEN /\ AnswerCall(c, 500, "Error updating user")
            /\ UNCHANGED users
       ELSE /\ users' = {IF u.id = c.id THEN SetClause(u, c.email, c.isActive) ELSE u :
                           u \in users}
            /\ AnswerCall(c, 200, "")
  /\ UNCHANGED <<db, keys, key_assignments, sqlite_sequence, now, tokens, reqs>>

\* DELETE /api/users/:id up to its await.
BeginDelete(id) ==
  /\ BagCardinality(calls) < MaxCall
  /\ calls' = calls (+) SetToBag({ArriveUser("delete", TRUE, id, "", "", << >>,
                                             "deactivate", "Error deactivating user")})
  /\ UNCHANGED <<db, users, keys, key_assignments, sqlite_sequence, now, tokens, reqs>>

\* DELETE /api/users/:id: UPDATE users SET isActive = 0 ... WHERE id = ?
DeactivateUser(c) ==
  /\ BagIn(c, calls)
  /\ IF db # "ready"
       THEN /\ AnswerCall(c, 500, "Error deactivating user")
            /\ UNCHANGED users
       ELSE /\ users' = {IF u.id = c.id THEN [u EXCEPT !.isActive = FALSE] ELSE u :
                           u \in users}
            /\ AnswerCall(c, 200, "")
  /\ UNCHANGED <<db, keys, key_assignments, sqlite_sequence, now, tokens, reqs>>

\* ------------------------------------------------------------------- Next
\* Clients that send requests without waiting for earlier answers.
Next ==
  \/ OpenDb
  \/ CreateTables
  \/ Tick
  \/ \E e \in Emails : CreateUser(e)
  \/ \E e \in Emails, p \in Passwords : Login(e, p)
  \/ \E t \in Tokens, idf \in Identifiers : CreateKey(t, idf)
  \/ \E t \in Tokens, v \in BOOLEAN, k \in KeyIds, u \in UserIds :
       BeginAssign(0, t, v, k, u)
  \/ \E r \in Waiting({0}, "assign", "select") : AssignSelect(r)
  \/ \E r \in Waiting({0}, "assign", "insert") : AssignInsert(r)
  \/ \E t \in Tokens, k \in KeyIds : BeginReturn(0, t, k)
  \/ \E r \in Waiting({0}, "return", "update") : ReturnUpdate(r)
  \/ \E t \in Tokens, k \in KeyIds : BeginHistory(0, t, k)
  \/ \E r \in Waiting({0}, "history", "query") : HistoryQuery(r)

Spec == Init /\ [][Next]_vars

\* Every statement a handler awaits is run in the end: the event loop and the
\* sqlite3 worker queue take each pending statement in turn.
Fairness ==
  /\ WF_vars(\E r \in Waiting({0}, "assign", "select") : AssignSelect(r))
  /\ WF_vars(\E r \in Waiting({0}, "assign", "insert") : AssignInsert(r))
  /\ WF_vars(\E r \in Waiting({0}, "return", "update") : ReturnUpdate(r))
  /\ WF_vars(\E r \in Waiting({0}, "history", "query") : HistoryQuery(r))

SpecFair == Init /\ [][Next]_vars /\ Fairness

\* The key registry side of routes/keys.js, started on a new or a stored
\* database file, with users who take keys for themselves.
InitKeys ==
  /\ db = "undefined"
  /\ users = {}
  /\ keys \in StoredKeys
  /\ key_assignments = {}
  /\ sqlite_sequence = [t \in {"users", "keys", "key_assignments"} |->
                          IF t = "keys" THEN Cardinality(keys) ELSE 0]
  /\ now = 1
  /\ tokens = {}
  /\ reqs = EmptyBag
  /\ calls = EmptyBag

NextKeys ==
  \/ OpenDb
  \/ CreateTables
  \/ \E e \in Emails : CreateUser(e)
  \/ \E e \in Emails, p \in Passwords : Login(e, p)
  \/ \E t \in Tokens, v \in BOOLEAN, idf \in CallIdentifiers :
       BeginCreateKey(t, v, idf)
  \/ \E c \in WaitingCalls("createKey", "insert") : CreateKeyInsert(c)
  \/ \E t \in Tokens : BeginListKeys(t)
  \/ \E c \in WaitingCalls("listKeys", "query") : ListKeysQuery(c)
  \/ \E t \in Tokens, k \in KeyIds : BeginAssign(0, t, TRUE, k, t)
  \/ \E r \in Waiting({0}, "assign", "select") : AssignSelect(r)
  \/ \E r \in Waiting({0}, "assign", "insert") : AssignInsert(r)

SpecKeys == InitKeys /\ [][NextKeys]_vars

\* The user and login handlers, requests sent without waiting for answers,
\* with users who take keys for themselves.
NextUsers ==
  \/ OpenDb
  \/ CreateTables
  \/ \E e \in Emails : CreateUser(e)
  \/ \E v \in BOOLEAN, e \in AllEmails, p \in Passwords : BeginLogin(v, e, p)
  \/ \E c \in WaitingUserCalls("login", "select") : LoginSelect(c)
  \/ \E c \in WaitingUserCalls("login", "compare") : LoginCompare(c)
  \/ \E v \in BOOLEAN, u \in UserIds, e \in NewEmails \cup {""}, a \in IsActiveInputs :
       BeginUpdate(v, u, e, a)
  \/ \E c \in WaitingUserCalls("update", "update") : UpdateUser(c)
  \/ \E u \in UserIds : BeginDelete(u)
  \/ \E c \in WaitingUserCalls("delete", "deactivate") : DeactivateUser(c)
  \/ \E t \in UserIds, k \in 1..Cardinality(Identifiers) : BeginAssign(0, t, TRUE, k, t)
  \/ \E r \in Waiting({0}, "assign", "select") : AssignSelect(r)
  \/ \E r \in Waiting({0}, "assign", "insert") : AssignInsert(r)

SpecUsers == Init /\ [][NextUsers]_vars

\* One client that sends each request after the answer to the one before.
NextSeq ==
  \/ OpenDb
  \/ CreateTables
  \/ Tick
  \/ \E e \in Emails : CreateUser(e)
  \/ \E e \in Emails, p \in Passwords : Login(e, p)
  \/ \E t \in Tokens, idf \in Identifiers : CreateKey(t, idf)
  \/ \E n \in 1..MaxReq, t \in Tokens, v \in BOOLEAN, k \in KeyIds, u \in UserIds :
       BeginAssign(n, t, v, k, u)
  \/ \E r \in Waiting(1..MaxReq, "assign", "select") : AssignSelect(r)
  \/ \E r \in Waiting(1..MaxReq, "assign", "insert") : AssignInsert(r)
  \/ \E n \in 1..MaxReq, t \in Tokens, k \in KeyIds : BeginReturn(n, t, k)
  \/ \E r \in Waiting(1..MaxReq, "return", "update") : ReturnUpdate(r)
  \/ \E n \in 1..MaxReq, t \in Tokens, k \in KeyIds : BeginHistory(n, t, k)
  \/ \E r \in Waiting(1..MaxReq, "history", "query") : HistoryQuery(r)

SpecSeq == Init /\ [][NextSeq]_vars

\* ===================================================================
\* Properties of the assignment ledger
\* ===================================================================

\* The open rows of key k in a key_assignments table ka.
OpenRows(ka, k) == {a \in ka : a.keyId = k /\ a.returnedAt = NULL}

\* An assign request that passed authentication and validation.
IsAssign(r) == r.op = "assign" /\ r.keyId \in KeyIds

\* The step takes request r on to r2 (an answer or the next statement): one
\* copy of r leaves the bag and one of r2 joins it.
Steps(r, r2) ==
  /\ r # r2
  /\ CopiesIn(r, reqs') < CopiesIn(r, reqs)
  /\ CopiesIn(r2, reqs') > CopiesIn(r2, reqs)

\* An answered request takes no further step.
AnswersFinal ==
  \A r \in BagToSet(reqs) : r.pc = "done" => CopiesIn(r, reqs') >= CopiesIn(r, reqs)

\* C1 - single-holder invariant: in every reachable state every keyId has at
\* most one key_assignments row whose returnedAt is null (stated for the ids
\* of the keys that exist, where the assign precondition on the key is met).
C1_SingleHolder ==
  \A k \in keys : Cardinality(OpenRows(key_assignments, k.id)) <= 1

\* C2 - of the assign requests for one key that meet with no return in
\* between, exactly one answers 201: two assigns of the same key never both
\* hold a 201 whose rows are both still open (a return of the key between the
\* two would have closed the first row).
C2_OneWinner ==
  \A r1, r2 \in BagToSet(reqs) :
    (/\ r1 # r2
     /\ IsAssign(r1) /\ IsAssign(r2)
     /\ r1.keyId = r2.keyId
     /\ \E k \in keys : k.id = r1.keyId /\ k.isActive
     /\ r1.status = 201 /\ r2.status = 201)
    => ~ (/\ \E a \in OpenRows(key_assignments, r1.keyId) : a.id = r1.lastID
          /\ \E a \in OpenRows(key_assignments, r2.keyId) : a.id = r2.lastID)

\* C3 - an assign request whose keyId names no active row of keys answers 404
\* KeyNotFound (a storage error aside) and inserts no row: no row of
\* key_assignments carries such a keyId.  Rows of keys are never removed or
\* deactivated, so a keyId that names no active key now named none when the
\* request ran.
C3_KeyNotFound ==
  /\ \A r \in BagToSet(reqs) :
       (/\ IsAssign(r) /\ r.pc = "done" /\ r.status # 500
        /\ ~ \E k \in keys : k.id = r.keyId /\ k.isActive)
       => r.status = 404
  /\ \A a \in key_assignments : \E k \in keys : k.id = a.keyId /\ k.isActive

\* C4 - an assign request whose check runs while its key has an open
\* assignment answers 400 "Key is already assigned" and inserts no row, then
\* or later (an answered request takes no further step).
C4_AlreadyAssigned ==
  [][/\ \A r \in BagToSet(reqs), r2 \in BagToSet(reqs') :
          (/\ r.op = "assign" /\ r.pc = "select"
           /\ db = "ready"
           /\ Steps(r, r2)
           /\ OpenRows(key_assignments, r.keyId) # {})
          => (/\ r2.pc = "done"
              /\ r2.status = 400
              /\ r2.error = "Key is already assigned"
              /\ key_assignments' = key_assignments)
     /\ AnswersFinal]_vars

C4_Witness ==
  \E r \in BagToSet(reqs) :
    /\ r.op = "assign" /\ r.pc = "done"
    /\ r.status = 400 /\ r.error = "Key is already assigned"
    /\ OpenRows(key_assignments, r.keyId) # {}

\* C5 - an assign request that does not answer 201 leaves key_assignments as
\* it was: every step of an assign request that changes the table is the step
\* that answers 201, and an answer is final.
C5_FailedAssignFrame ==
  [][/\ \A r2 \in BagToSet(reqs') :
          (/\ r2.op = "assign"
           /\ key_assignments' # key_assignments
           /\ CopiesIn(r2, reqs') > CopiesIn(r2, reqs))
          => r2.status = 201
     /\ AnswersFinal]_vars

C5_Witness ==
  /\ key_assignments # {}
  /\ \E r \in BagToSet(reqs) :
       /\ r.op = "assign" /\ r.pc = "done"
       /\ r.status = 400 /\ r.error = "errors"
  /\ \E r \in BagToSet(reqs) :
       /\ r.op = "assign" /\ r.pc = "done"
       /\ r.status = 400 /\ r.error = "Key is already assigned"

\* C6 - a return(keyId) request changes at most one row, the single open row
\* of keyId, whose returnedAt it sets to a non-null time; every other row is
\* unchanged, and afterwards keyId has no open assignment.
C6_ReturnOneRow ==
  [][\A r \in BagToSet(reqs), r2 \in BagToSet(reqs') :
       (/\ r.op = "return" /\ r.pc = "update"
        /\ db = "ready"
        /\ Steps(r, r2))
       => (/\ Cardinality(key_assignments \ key_assignments') <= 1
           /\ \A a \in key_assignments \ key_assignments' :
                /\ a.keyId = r.keyId /\ a.returnedAt = NULL
                /\ \E t \in 1..MaxTime :
                     key_assignments' =
                       (key_assignments \ {a}) \cup {[a EXCEPT !.returnedAt = t]}
           /\ Cardinality(key_assignments') = Cardinality(key_assignments)
           /\ OpenRows(key_assignments', r.keyId) = {})]_vars

\* C7 - a return request for a key with no open assignment (never assigned,
\* already returned, unknown keyId) creates and changes no row and answers
\* 200 when its statement runs; after any return the key has no open
\* assignment, so a second return in a row is such a no-op.
C7_ReturnNoOp ==
  [][\A r \in BagToSet(reqs), r2 \in BagToSet(reqs') :
       (/\ r.op = "return" /\ r.pc = "update"
        /\ Steps(r, r2))
       => (/\ OpenRows(key_assignments, r.keyId) = {}
                => (/\ key_assignments' = key_assignments
                    /\ sqlite_sequence' = sqlite_sequence
                    /\ db = "ready" => (r2.pc = "done" /\ r2.status = 200))
           /\ db = "ready" => OpenRows(key_assignments', r.keyId) = {})]_vars

C7_Witness ==
  \E r \in BagToSet(reqs) :
    /\ r.op = "return" /\ r.pc = "done" /\ r.status = 200
    /\ CopiesIn(r, reqs) >= 2
    /\ \E a \in key_assignments :
         a.keyId = r.keyId /\ a.returnedAt # NULL /\ a.returnedAt < now

\* C8 - a closed row stays in the table as it is (same id, keyId, assignedTo,
\* assignedBy, assignedAt, returnedAt) through every step, and every row, open
\* or closed, keeps its assignedAt.
C8_ClosedImmutable ==
  [][/\ \A a \in key_assignments : a.returnedAt # NULL => a \in key_assignments'
     /\ \A a \in key_assignments :
          \E b \in key_assignments' : b.id = a.id /\ b.assignedAt = a.assignedAt]_vars

C8_Witness ==
  \E a, b \in key_assignments :
    /\ a.keyId = b.keyId /\ a.id < b.id
    /\ a.returnedAt # NULL /\ a.returnedAt < now
    /\ a.assignedAt < b.assignedAt

\* C9 - for one client running assign(k), return(k), assign(k) in sequence on
\* a key with no open assignment (store ready, nothing else in between): both
\* assigns answer 201, exactly two rows are added, with distinct ids, the
\* first closed and the second open.  An assign whose check finds the key
\* free goes on to its INSERT; the key was free at a1's check unless a1 was
\* refused as already assigned.
C9_Accepts ==
  \A r \in BagToSet(reqs), r2 \in BagToSet(reqs') :
    (/\ r.op = "assign" /\ r.pc = "select"
     /\ db = "ready"
     /\ OpenRows(key_assignments, r.keyId) = {}
     /\ Steps(r, r2))
    => r2.pc = "insert"

C9_Scenario(a1, rt, a2) ==
  /\ a1.op = "assign" /\ rt.op = "return" /\ a2.op = "assign"
  /\ a1.n > 0 /\ rt.n = a1.n + 1 /\ a2.n = a1.n + 2
  /\ a1.keyId \in KeyIds /\ rt.keyId = a1.keyId /\ a2.keyId = a1.keyId
  /\ a1.pc = "done" /\ rt.pc = "done" /\ a2.pc = "done"
  /\ a1.status # 500 /\ rt.status # 500 /\ a2.status # 500
  /\ a1.error # "Key is already assigned"
  /\ BagCardinality(reqs) = a2.n

C9_Outcome(a1, rt, a2) ==
  /\ a1.status = 201 /\ rt.status = 200 /\ a2.status = 201
  /\ a1.lastID # a2.lastID
  /\ Cardinality({a \in key_assignments : a.id >= a1.lastID}) = 2
  /\ \E a \in key_assignments :
       a.id = a1.lastID /\ a.keyId = a1.keyId /\ a.returnedAt # NULL
  /\ \E a \in key_assignments :
       a.id = a2.lastID /\ a.keyId = a1.keyId /\ a.returnedAt = NULL

C9_State ==
  \A a1, rt, a2 \in BagToSet(reqs) :
    C9_Scenario(a1, rt, a2) => C9_Outcome(a1, rt, a2)

C9_Cycle == [][C9_Accepts /\ C9_State']_vars

C9_Witness ==
  \E a1, rt, a2 \in BagToSet(reqs) :
    C9_Scenario(a1, rt, a2) /\ C9_Outcome(a1, rt, a2)

\* C10 - history(k) answers with exactly one entry for every key_assignments
\* row with keyId = k, open or closed, whoever its assignedTo and assignedBy
\* are, and with no entry of another key.
C10_HistoryComplete ==
  [][\A r \in BagToSet(reqs), r2 \in BagToSet(reqs') :
       (/\ r.op = "history" /\ r.pc = "query"
        /\ db = "ready"
        /\ Steps(r, r2))
       => (/\ r2.status = 200
           /\ \A a \in key_assignments :
                a.keyId = r.keyId =>
                  Cardinality({i \in 1..Len(r2.result) : r2.result[i].id = a.id}) = 1
           /\ \A i \in 1..Len(r2.result) : r2.result[i].keyId = r.keyId)]_vars

\* C11 - history(k) answers in one total order, assignedAt descending and,
\* for equal assignedAt, id descending: every answer the query can give in a
\* state is sorted that way (so the open row of a second assign comes before
\* the closed row of the first although both carry the same assignedAt).
C11_TotalOrder ==
  \A k \in KeyIds :
    \A s \in OrderByAssignedAtDesc(HistoryRows(k)) :
      \A i, j \in 1..Len(s) :
        i < j => \/ s[i].assignedAt > s[j].assignedAt
                 \/ (s[i].assignedAt = s[j].assignedAt /\ s[i].id > s[j].id)

\* C12 - an assign whose holder or actor names no user is refused and inserts
\* no row: the assignedTo and assignedBy of every row name rows of users.
C12_ValidUsers ==
  \A a \in key_assignments :
    /\ \E u \in users : u.id = a.assignedTo
    /\ \E u \in users : u.id = a.assignedBy

\* C13 - the step by which an assign answers 201 adds exactly one row, with
\* the request's keyId and assignedTo, assignedBy the authenticated user,
\* returnedAt null and the id of the answer; and the row of every 201 stays
\* in the table under that id with these values.
C13_Inserted ==
  \A r \in BagToSet(reqs) :
    (r.op = "assign" /\ r.status = 201)
    => \E a \in key_assignments :
         /\ a.id = r.lastID /\ a.keyId = r.keyId
         /\ a.assignedTo = r.assignedTo /\ a.assignedBy = r.user
         /\ r.user \in tokens

C13_AssignCreated ==
  [][/\ \A r \in BagToSet(reqs), r2 \in BagToSet(reqs') :
          (/\ r.op = "assign" /\ r2.status = 201
           /\ Steps(r, r2))
          => /\ key_assignments \subseteq key_assignments'
             /\ key_assignments' \ key_assignments =
                  {[id |-> r2.lastID, keyId |-> r.keyId, assignedTo |-> r.assignedTo,
                    assignedBy |-> r.user, assignedAt |-> now, returnedAt |-> NULL]}
             /\ \A a \in key_assignments : a.id # r2.lastID
     /\ C13_Inserted']_vars

C13_Witness ==
  \E r1, r2 \in BagToSet(reqs) :
    /\ r1.op = "assign" /\ r2.op = "assign"
    /\ r1.status = 201 /\ r2.status = 201
    /\ r1.keyId # r2.keyId /\ r1.assignedTo # r1.user
    /\ r1.lastID > r2.lastID

\* C16 - the ids of key_assignments rows are pairwise distinct, and a newly
\* inserted row has an id greater than that of every row inserted before it.
C16_IdsIncrease ==
  [][/\ \A a, b \in key_assignments' : a.id = b.id => a = b
     /\ \A b \in key_assignments' :
          (\A a \in key_assignments : a.id # b.id)
          => \A a \in key_assignments : b.id > a.id]_vars

C16_Witness ==
  \E a, b \in key_assignments :
    a.id < b.id /\ a.keyId # b.keyId /\ a.returnedAt = NULL /\ b.returnedAt = NULL

\* C17 - every step of an assign, return or history request leaves the keys
\* table (each key's active flag included) and the users table unchanged, and
\* every step of a history request leaves key_assignments unchanged.
C17_LedgerFrame ==
  [][\A r2 \in BagToSet(reqs') :
       CopiesIn(r2, reqs') > CopiesIn(r2, reqs)
       => /\ r2.op \in {"assign", "return", "history"}
          /\ keys' = keys /\ users' = users
          /\ r2.op = "history" => key_assignments' = key_assignments]_vars

C17_Witness ==
  /\ \E r \in BagToSet(reqs) :
       /\ r.op = "return" /\ r.status = 200
       /\ \E k \in keys : k.id = r.keyId /\ k.isActive
       /\ \E a \in key_assignments : a.keyId = r.keyId /\ a.returnedAt # NULL
  /\ \E r \in BagToSet(reqs) : r.op = "history" /\ r.status = 200 /\ Len(r.result) > 0

\* C14 - a /api/keys request that the token check rejects is answered 401
\* before its handler runs: it holds nothing read from the request, it makes
\* no later step and its arrival changes no table; every other request
\* carries an issued token, every change of key_assignments is a step of such
\* a request, and keys changes only when a token has been issued.
C14_Rejected(r) ==
  /\ r.pc = "done" /\ r.user = NoToken
  /\ r.keyId = 0 /\ r.assignedTo = 0 /\ r.lastID = 0 /\ r.result = <<>>

C15_UsersNeedAuth == [][users' # users => tokens # {}]_vars

\* C19 - under fair scheduling every assign, return and history request is
\* answered, and answered once: whenever requests are unanswered all of them
\* get answered; no received request is dropped and an answer is never
\* changed or repeated.
C19_Pending == {r \in BagToSet(reqs) : r.pc # "done"}

C19_Completes ==
  /\ [][/\ BagCardinality(reqs') >= BagCardinality(reqs)
        /\ \A r \in BagToSet(reqs) :
             r.pc = "done" => CopiesIn(r, reqs') >= CopiesIn(r, reqs)
        /\ \A r \in BagToSet(reqs') :
             r.pc = "done" <=> r.status \in {200, 201, 400, 401, 500}]_vars
  /\ (C19_Pending # {}) ~> (C19_Pending = {})

C19_Witness ==
  /\ BagCardinality(reqs) = MaxReq
  /\ C19_Pending = {}
  /\ \E r \in BagToSet(reqs) : r.op = "assign" /\ r.status = 201
  /\ \E r \in BagToSet(reqs) : r.op = "return" /\ r.status = 200
  /\ \E r \in BagToSet(reqs) : r.op = "history" /\ r.status = 200

\* The step takes call c on to c2.
StepsCall(c, c2) ==
  /\ c # c2
  /\ CopiesIn(c, calls') < CopiesIn(c, calls)
  /\ CopiesIn(c2, calls') > CopiesIn(c2, calls)

\* The create-key requests for identifier idf that answered 201.
C18_Created(idf) ==
  {c \in BagToSet(calls) :
     c.op = "createKey" /\ c.identifier = idf /\ c.status = 201}

C18_Refused(idf) ==
  {c \in BagToSet(calls) :
     /\ c.op = "createKey" /\ c.identifier = idf
     /\ c.status = 400 /\ c.error = "Key identifier already exists"}

\* C18 - key identifiers are unique in every state; a create-key whose INSERT
\* meets a key with the same identifier answers 400 'Key identifier already
\* exists' and adds no row; of the create-key requests for one identifier at
\* most one answers 201, and where one was refused for an identifier that was
\* not in the stored file exactly one answered 201.
C18_UniqueIdentifier ==
  [][/\ \A k1, k2 \in keys' : k1.identifier = k2.identifier => k1 = k2
     /\ \A c \in BagToSet(calls), c2 \in BagToSet(calls') :
          (/\ c.op = "createKey" /\ db = "ready"
           /\ \E k \in keys : k.identifier = c.identifier
           /\ StepsCall(c, c2))
          => /\ c2 \in C18_Refused(c.identifier)'
             /\ keys' = keys /\ sqlite_sequence' = sqlite_sequence
     /\ \A idf \in CallIdentifiers :
          /\ \A c1, c2 \in C18_Created(idf)' : c1 = c2 /\ CopiesIn(c1, calls') = 1
          /\ (/\ C18_Refused(idf)' # {}
              /\ \A k \in keys' : k.identifier = idf => k.isActive)
             => /\ C18_Created(idf)' # {}
                /\ \E k \in keys' : /\ k.identifier = idf
                                    /\ \A c \in C18_Created(idf)' : c.lastID = k.id]_vars

C18_Witness ==
  \E idf \in Identifiers :
    /\ C18_Created(idf) # {} /\ C18_Refused(idf) # {}
    /\ Cardinality({k \in keys : k.identifier = idf}) = 1

\* C20 - GET /api/keys answers with exactly the keys whose active flag is
\* set: every active key, with or without an open assignment, and no
\* inactive key.
C20_ListActive ==
  [][\A c \in BagToSet(calls), c2 \in BagToSet(calls') :
       (c.op = "listKeys" /\ StepsCall(c, c2) /\ db = "ready")
       => /\ c2.pc = "done" /\ c2.status = 200
          /\ \A k \in keys : k \in c2.result <=> k.isActive
          /\ c2.result \subseteq keys
          /\ UNCHANGED <<keys, key_assignments>>]_vars

C20_Witness ==
  \E c \in BagToSet(calls) :
    /\ c.op = "listKeys" /\ c.status = 200
    /\ \E k \in c.result : OpenRows(key_assignments, k.id) # {}
    /\ \E k \in keys : ~k.isActive /\ k \notin c.result

\* C21 - for each key only the row with the greatest id among the key's rows
\* can be open: every older row of the key is closed (stated for the ids of
\* the keys that exist).
C21_NewestOnlyOpen ==
  \A k \in keys :
    \A a, b \in key_assignments :
      (a.keyId = k.id /\ b.keyId = k.id /\ a.id < b.id) => a.returnedAt # NULL

\* The statement a waiting users / auth request runs next.
UserStep(c) ==
  CASE c.pc = "select" -> LoginSelect(c)
    [] c.pc = "compare" -> LoginCompare(c)
    [] c.pc = "update" -> UpdateUser(c)
    [] c.pc = "deactivate" -> DeactivateUser(c)
    [] OTHER -> FALSE

C22_Store == <<users, keys, key_assignments, sqlite_sequence, tokens>>

\* C22 as stated - every request answered before the database is opened and
\* its tables are created is answered 500 (and changes nothing).
C22_Always500 ==
  [][\A c2 \in BagToSet(calls') :
       (/\ db # "ready" /\ c2.pc = "done"
        /\ CopiesIn(c2, calls') > CopiesIn(c2, calls))
       => c2.status = 500 /\ UNCHANGED C22_Store]_vars

\* C22 - while the database is not opened or its tables are not created no
\* step changes the store; a request that arrives is accepted at once and one
\* that fails validation is answered 400 as at any other time; every other
\* request is answered 500, on arrival or by its statement; a request that
\* waits can always take its step.
C22_BeforeInit ==
  [][db # "ready"
     => /\ UNCHANGED C22_Store
        /\ \A c2 \in BagToSet(calls') :
             CopiesIn(c2, calls') > CopiesIn(c2, calls)
             => /\ c2.pc = "done" => c2.status \in {400, 500}
                /\ c2.status = 400 => c2.error \in {"errors", "No valid updates provided"}
                /\ db = "undefined" => c2.pc = "done"
                /\ \A c \in BagToSet(calls) :
                     StepsCall(c, c2) => c2.pc = "done" /\ c2.status = 500
        /\ \A c \in BagToSet(calls) : c.pc # "done" => ENABLED UserStep(c)]_vars

C22_Witness ==
  /\ db = "open" /\ users = {}
  /\ \E c \in BagToSet(calls) :
       c.op = "login" /\ c.status = 500 /\ c.error = "Error during login"
  /\ \E c \in BagToSet(calls) :
       c.op = "update" /\ c.status = 500 /\ c.isActive = <<FALSE>>

\* The rows a login for email may succeed on.
C23_Active(us, email) == {u \in us : u.email = email /\ u.isActive}

\* C23 as stated - a login answers with a token only when, at the answer, a
\* user row with its email exists, is active and holds its password: no login
\* for a deactivated user is answered 200.
C23_NoTokenWhileInactive ==
  [][\A c \in BagToSet(calls), c2 \in BagToSet(calls') :
       (c.op = "login" /\ c2.status = 200 /\ StepsCall(c, c2))
       => \E u \in C23_Active(users, c.email) : u.password = Hash(c.password)]_vars

\* C23 - a login whose SELECT runs while no active user row holds its email
\* answers 401 and issues no token (so does every login looked up between a
\* deactivation and the reactivation); a login is answered 200 only for the
\* active row its SELECT returned and only when the password matches that
\* row's hash, and only such an answer issues a token, for that row's id.
C23_LoginActiveOnly ==
  [][/\ \A c \in BagToSet(calls), c2 \in BagToSet(calls') :
          (c.op = "login" /\ StepsCall(c, c2))
          => /\ (c.pc = "select" /\ db = "ready")
                => /\ tokens' = tokens
                   /\ IF C23_Active(users, c.email) = {}
                        THEN c2.pc = "done" /\ c2.status = 401
                        ELSE /\ c2.pc = "compare"
                             /\ \E u \in C23_Active(users, c.email) :
                                  c2.userId = u.id /\ c2.hash = u.password
             /\ c.pc = "compare"
                => /\ c2.pc = "done"
                   /\ IF c.hash = Hash(c.password)
                        THEN c2.status = 200 /\ tokens' = tokens \cup {c.userId}
                        ELSE c2.status = 401 /\ tokens' = tokens
             /\ c2.status = 200 => c.pc = "compare"
     /\ tokens' # tokens
          => \E c \in BagToSet(calls), c2 \in BagToSet(calls') :
               c.op = "login" /\ c2.status = 200 /\ StepsCall(c, c2)]_vars

C23_Witness ==
  /\ tokens = {}
  /\ \E c \in BagToSet(calls) : c.op = "delete" /\ c.status = 200
  /\ \E c \in BagToSet(calls) :
       /\ c.op = "login" /\ c.status = 401 /\ c.password = tempPassword
       /\ \E u \in users : u.email = c.email /\ ~u.isActive

\* Row u2 is row u with the supplied members set and nothing else changed.
C24_Updated(u, u2, email, isActive) ==
  /\ u2.id = u.id /\ u2.password = u.password
  /\ u2.email = IF email # "" THEN email ELSE u.email
  /\ u2.isActive = IF isActive # << >> THEN isActive[1] ELSE u.isActive

\* C24 - a user update answered 200 changes only the row with its id, and in
\* it only the supplied members among email and isActive (false included); an
\* update that is not answered 200 changes no row; an update supplying
\* neither member is answered 400 'No valid updates provided' on arrival; a
\* deactivation changes only isActive of the row with its id; none of these
\* requests changes key_assignments.
C24_UpdateFrame ==
  [][\A c2 \in BagToSet(calls') :
       (c2.op \in {"update", "delete"} /\ CopiesIn(c2, calls') > CopiesIn(c2, calls))
       => /\ key_assignments' = key_assignments /\ keys' = keys
          /\ (c2.op = "update" /\ c2.email = "" /\ c2.isActive = << >>
              /\ c2.error # "errors")
             => /\ c2.status = 400 /\ c2.error = "No valid updates provided"
                /\ c2.pc = "done"
          /\ c2.status # 200 => users' = users
          /\ \A c \in BagToSet(calls) :
               (StepsCall(c, c2) /\ c2.status = 200)
               => /\ \A u \in users : u.id # c.id => u \in users'
                  /\ \A u2 \in users' : u2.id # c.id => u2 \in users
                  /\ \A u \in users :
                       u.id = c.id
                       => \E u2 \in users' :
                            IF c.op = "update"
                              THEN C24_Updated(u, u2, c.email, c.isActive)
                              ELSE C24_Updated(u, u2, "", <<FALSE>>)
                  /\ Cardinality(users') = Cardinality(users)]_vars

C24_Witness ==
  /\ \E c \in BagToSet(calls) :
       /\ c.op = "update" /\ c.status = 200 /\ c.isActive = <<FALSE>>
       /\ \E u \in users : u.id = c.id /\ ~u.isActive /\ u.email \in Emails
       /\ \E a \in key_assignments : a.assignedTo = c.id /\ a.returnedAt = NULL
  /\ \E c \in BagToSet(calls) : c.op = "login" /\ c.status = 200

====
